---- MODULE Spec2Model ----
(***************************************************************************)
(* SoftShop (ojilenoah/ecom): the storage layer (server/storage.ts, the    *)
(* SupabaseStorage class of the latest revision) and the HTTP routes that  *)
(* call it, over the tables of the Supabase schema.                        *)
(*                                                                         *)
(* Every table is a set of rows.  A request that issues several database   *)
(* statements is a process with one step per statement, so that requests   *)
(* interleave exactly where the code awaits the store.  Money is counted   *)
(* in cents: a DECIMAL(10,2) price is an integer number of cents, and      *)
(* parseFloat(price) * quantity, summed and written back to a DECIMAL(10,2)*)
(* column, is the integer sum of cents.                                    *)
(***************************************************************************)
EXTENDS Integers, FiniteSets, Sequences, TLC

(* ----------------------------- bounds ---------------------------------- *)
MaxReqs == 2        \* requests in flight at once
MaxCheckouts == 1   \* checkouts that read a non-empty cart
MaxQty == 2         \* largest quantity of a cart line

(* ------------------------- the small universe -------------------------- *)
Users == {"u1", "u2"}
Vendors == {"v1", "v2"}
Products == {"p1", "p2", "p3"}
NoUser == "none"            \* a request without the user-id header
NoOrder == 0                \* no order id
NoComment == "null"         \* SQL NULL in ratings.comment / an absent comment

\* The seeded catalogue: two products of vendor v1 and one of vendor v2, one
\* piece of each in stock.
SeedProducts ==
    { [id |-> "p1", vendor_id |-> "v1", price |-> 2, name |-> "Headphones",
       category |-> "Electronics", stock |-> 1],
      [id |-> "p2", vendor_id |-> "v1", price |-> 3, name |-> "Charger",
       category |-> "Electronics", stock |-> 1],
      [id |-> "p3", vendor_id |-> "v2", price |-> 5, name |-> "Sunglasses",
       category |-> "Fashion", stock |-> 1] }

VARIABLES
    products,       \* table products: rows [id, vendor_id, price, name, category, stock]
    cart,           \* table cart: rows [user_id, product_id, quantity]
    orders,         \* table orders: rows [id, user_id, vendor_id, items, total, status, updated_at]
    ratings,        \* table ratings: rows [user_id, product_id, rating, comment]
    vendor_profiles,\* table vendor_profiles: rows [user_id, brand_name, is_approved]
    timers,         \* pending setTimeout callbacks: order id -> number of callbacks
    checkouts,      \* checkouts that read a non-empty cart so far
    nextOrderId,    \* the id the next inserted order gets
    reqs,           \* requests in flight: slot -> request record
    resp,           \* the response of the request that completed last
    lastToggle,     \* history: vendor -> is_approved of the last completed update that set it
    users,          \* table users: the ids of the rows
    settings        \* table settings: key -> value

vars == <<products, cart, orders, ratings, vendor_profiles, timers, checkouts, nextOrderId,
          reqs, resp, lastToggle, users, settings>>

shopVars == <<products, cart, orders, ratings, timers, checkouts, nextOrderId>>
vendorVars == <<vendor_profiles, lastToggle>>
adminVars == <<users, settings>>

Slots == 1..MaxReqs

Idle == [op |-> "idle", pc |-> "idle", user_id |-> NoUser, product_id |-> "none",
         quantity |-> 0, existing |-> 0, cartItems |-> {}, todo |-> {},
         created |-> <<>>]

\* The last completed request: its route and user, the status code answered, the
\* id of the order in the body (checkout), the is_approved member of the
\* body (vendor profile), "n/a" on other routes, the number in the body
\* (cart count), 0 on other routes, and the members of the user records in
\* the body, none on other routes.
NoResp == [op |-> "none", user_id |-> NoUser, status |-> 0, order_id |-> NoOrder,
           is_approved |-> "n/a", count |-> 0, keys |-> {}]

Response(op, u, status, oid) ==
    [op |-> op, user_id |-> u, status |-> status, order_id |-> oid, is_approved |-> "n/a",
     count |-> 0, keys |-> {}]

FreeSlot(s) == reqs[s].op = "idle" /\ \A t \in Slots : t < s => reqs[t].op # "idle"

\* The store may fail on any statement (network error, outage).
StoreResults == {"ok", "error"}

(* --------------------------- pure helpers ------------------------------ *)
LineTotal(item) == item.price * item.quantity

RECURSIVE SumLines(_)
SumLines(S) ==
    IF S = {} THEN 0
    ELSE LET x == CHOOSE y \in S : TRUE IN LineTotal(x) + SumLines(S \ {x})

\* storage.ts getCartItems: the user's cart lines joined (inner) with products.
getCartItems(c, prods, u) ==
    { [product_id |-> r.product_id, quantity |-> r.quantity,
       price |-> p.price, vendor_id |-> p.vendor_id] :
        <<r, p>> \in { rp \in c \X prods :
                         rp[1].user_id = u /\ rp[2].id = rp[1].product_id } }

\* storage.ts createOrder: cartItems.reduce(...) grouping the lines by vendor.
itemsByVendor(items, v) == { i \in items : i.vendor_id = v }
vendorsOf(items) == { i.vendor_id : i \in items }

\* A reduce that keeps one line's amount instead of accumulating.
vendorTotalOneLine(items) == LineTotal(CHOOSE i \in items : TRUE)

\* storage.ts createOrder: vendorItems.reduce(sum + parseFloat(price) * quantity).
vendorTotal(items) == SumLines(items)

\* The insert of the earlier revision: status 'pending'.
newOrderPending(id, u, v, items) ==
    [id |-> id, user_id |-> u, vendor_id |-> v, items |-> items,
     total |-> SumLines(items), status |-> "pending", updated_at |-> 0]

\* storage.ts createOrder: the row inserted into orders.
newOrder(id, u, v, items) ==
    [id |-> id, user_id |-> u, vendor_id |-> v, items |-> items,
     total |-> vendorTotal(items), status |-> "paid", updated_at |-> 0]

\* storage.ts clearCart: delete from cart where user_id = u.
clearCart(c, u) == { r \in c : r.user_id # u }

\* An update that lost its `.eq('id', id)` filter.
updateEveryOrderStatus(ords, id, status) ==
    { [o EXCEPT !.status = status, !.updated_at = o.updated_at + 1] : o \in ords }

\* storage.ts updateOrderStatus: update orders set status where id = id.  The
\* BEFORE UPDATE trigger of the schema advances updated_at on every matched row.
updateOrderStatus(ords, id, status) ==
    { IF o.id = id
        THEN [o EXCEPT !.status = status, !.updated_at = o.updated_at + 1]
        ELSE o : o \in ords }

\* setTimeout(() => updateOrderStatus(order.id, 'fulfilled'), 30000)
schedule(tm, id) == IF id \in DOMAIN tm THEN [tm EXCEPT ![id] = tm[id] + 1]
                                          ELSE tm @@ (id :> 1)

(* ------------------------------ stats ----------------------------------- *)
\* orders.reduce((sum, order) => sum + parseFloat(order.total), 0)
sumTotals(ords) == SumLines({ [id |-> o.id, price |-> o.total, quantity |-> 1] : o \in ords })

\* storage.getAdminStats, revenue: the totals of the orders with status 'paid'.
adminRevenue(ords) == sumTotals({ o \in ords : o.status = "paid" })

\* storage.getVendorStats, revenue: the totals of the vendor's orders with
\* status 'paid' or 'fulfilled'.
vendorRevenue(ords, v) ==
    sumTotals({ o \in ords : o.vendor_id = v /\ o.status \in {"paid", "fulfilled"} })

(* ----------------------------- settings -------------------------------- *)
\* The rows the schema script inserts into settings.
SeedSettings == [maintenance_mode |-> "false", platform_name |-> "Minilal"]

\* initializeDatabase: the rows it upserts at every construction of the storage.
defaultSettings == [site_name |-> "SoftShop", maintenance_mode |-> "false"]

\* upsert(setting, {onConflict: 'key'}) for every row of rows: a row whose key
\* exists takes the new value, another one is inserted.
upsertSettings(st, rows) ==
    [k \in (DOMAIN st) \cup (DOMAIN rows) |-> IF k \in DOMAIN rows THEN rows[k] ELSE st[k]]

(* ------------------------------ Init ----------------------------------- *)
\* The seeded shop: the catalogue, the approved profile of vendor v1, and v2, a
\* user who has products but no vendor_profiles row yet.
Init ==
    /\ products = SeedProducts
    /\ cart = {}
    /\ orders = {}
    /\ ratings = {}
    /\ vendor_profiles = { [user_id |-> "v1", brand_name |-> "TechGear Pro",
                             is_approved |-> TRUE] }
    /\ timers = <<>>
    /\ checkouts = 0
    /\ nextOrderId = 1
    /\ reqs = [s \in Slots |-> Idle]
    /\ resp = NoResp
    /\ lastToggle = [v \in Vendors |-> "unset"]
    /\ users = Users \cup Vendors
    /\ settings = upsertSettings(SeedSettings, defaultSettings)

(* ------------------------------ cart ----------------------------------- *)
\* A request body without a quantity / no existing line: a value no quantity of
\* a body or of a line takes.
NoQty == -100

cartLine(c, u, p) == { r \in c : r.user_id = u /\ r.product_id = p }

\* storage.addToCart, the select: the quantity of the existing line, if any.
existingQty(c, u, p) ==
    IF cartLine(c, u, p) = {} THEN NoQty
    ELSE (CHOOSE r \in cartLine(c, u, p) : TRUE).quantity

\* `cartItem.quantity || 1`
qtyOr1(q) == IF q = NoQty \/ q = 0 THEN 1 ELSE q

\* insert(cartItem): the column default fills a missing quantity.
qtyOrDefault(q) == IF q = NoQty THEN 1 ELSE q

\* update cart set quantity = q where user_id = u and product_id = p
setQuantity(c, u, p, q) ==
    { IF r.user_id = u /\ r.product_id = p THEN [r EXCEPT !.quantity = q] ELSE r : r \in c }

\* insert into cart: the primary key (user_id, product_id) and the foreign key
\* to products decide whether the insert is accepted.
cartInsertOk(c, prods, u, p) ==
    /\ cartLine(c, u, p) = {}
    /\ \E pr \in prods : pr.id = p

\* storage.addToCart, the write: update the line that was read, or insert one.
addToCartWrite(c, prods, u, p, q, existing) ==
    IF existing # NoQty
      THEN [cart |-> setQuantity(c, u, p, existing + qtyOr1(q)), status |-> 200]
      ELSE IF cartInsertOk(c, prods, u, p)
        THEN [cart |-> c \cup { [user_id |-> u, product_id |-> p,
                                 quantity |-> qtyOrDefault(q)] },
              status |-> 200]
        ELSE [cart |-> c, status |-> 500]

\* The quantity the line would have: the guard that keeps quantities bounded.
QtyAfterAdd(c, u, p, q) ==
    IF existingQty(c, u, p) = NoQty THEN qtyOrDefault(q) ELSE existingQty(c, u, p) + qtyOr1(q)

Finish(s, r) == /\ reqs' = [reqs EXCEPT ![s] = Idle]
                /\ resp' = r

\* Any route called without a user-id header answers 401.
Unauthenticated(op) ==
    /\ resp' = Response(op, NoUser, 401, NoOrder)
    /\ UNCHANGED <<adminVars, shopVars, vendorVars, reqs>>

\* POST /api/cart, storage.addToCart as one step (no other request in between).
AddToCart(u, p, q, resSelect, resWrite) ==
    /\ QtyAfterAdd(cart, u, p, q) <= MaxQty
    /\ LET w == addToCartWrite(cart, products, u, p, q, existingQty(cart, u, p)) IN
       IF resSelect = "error" \/ resWrite = "error"
         THEN /\ resp' = Response("addToCart", u, 500, NoOrder)
              /\ UNCHANGED cart
         ELSE /\ cart' = w.cart
              /\ resp' = Response("addToCart", u, w.status, NoOrder)
    /\ UNCHANGED <<adminVars, products, orders, ratings, timers, checkouts, nextOrderId, vendorVars, reqs>>

\* POST /api/cart, storage.addToCart, first statement: select the existing line.
AddToCartSelect(s, u, p, q, res) ==
    /\ FreeSlot(s)
    /\ QtyAfterAdd(cart, u, p, q) <= MaxQty
    /\ IF res = "error"
         THEN /\ resp' = Response("addToCart", u, 500, NoOrder)
              /\ UNCHANGED reqs
         ELSE /\ reqs' = [reqs EXCEPT ![s] =
                    [Idle EXCEPT !.op = "addToCart", !.pc = "write", !.user_id = u,
                                 !.product_id = p, !.quantity = q,
                                 !.existing = existingQty(cart, u, p)]]
              /\ UNCHANGED resp
    /\ UNCHANGED <<adminVars, shopVars, vendorVars>>

\* storage.addToCart, second statement: update the line read, or insert a new one.
AddToCartWrite(s, res) ==
    /\ reqs[s].op = "addToCart" /\ reqs[s].pc = "write"
    /\ LET r == reqs[s]
           w == addToCartWrite(cart, products, r.user_id, r.product_id, r.quantity, r.existing)
       IN IF res = "error"
            THEN /\ Finish(s, Response("addToCart", r.user_id, 500, NoOrder))
                 /\ UNCHANGED cart
            ELSE /\ cart' = w.cart
                 /\ Finish(s, Response("addToCart", r.user_id, w.status, NoOrder))
    /\ UNCHANGED <<adminVars, products, orders, ratings, timers, checkouts, nextOrderId, vendorVars>>

\* storage.getCartCount: the sum of the quantities of the user's lines, 0 when
\* the store fails.
getCartCount(c, u, res) ==
    IF res = "error" THEN 0
    ELSE SumLines({ [product_id |-> r.product_id, quantity |-> r.quantity, price |-> 1] :
                      r \in { x \in c : x.user_id = u } })

\* GET /api/cart/count.
GetCartCount(u, res) ==
    /\ resp' = [Response("getCartCount", u, 200, NoOrder)
                  EXCEPT !.count = getCartCount(cart, u, res)]
    /\ UNCHANGED <<adminVars, shopVars, vendorVars, reqs>>

\* An update whose failure is swallowed: the route answers 200.
UpdateCartItemSwallows(u, p, q, res) ==
    /\ cart' = IF res = "error" THEN cart ELSE setQuantity(cart, u, p, q)
    /\ resp' = Response("updateCartItem", u, 200, NoOrder)
    /\ UNCHANGED <<adminVars, products, orders, ratings, timers, checkouts, nextOrderId, vendorVars, reqs>>

\* PATCH /api/cart/:productId, storage.updateCartItem: one update statement.
UpdateCartItem(u, p, q, res) ==
    /\ IF res = "error"
         THEN /\ resp' = Response("updateCartItem", u, 500, NoOrder)
              /\ UNCHANGED cart
         ELSE /\ cart' = setQuantity(cart, u, p, q)
              /\ resp' = Response("updateCartItem", u, 200, NoOrder)
    /\ UNCHANGED <<adminVars, products, orders, ratings, timers, checkouts, nextOrderId, vendorVars, reqs>>

\* storage.removeFromCart: delete from cart where user_id = u and product_id = p.
removeFromCart(c, u, p) == { r \in c : ~(r.user_id = u /\ r.product_id = p) }

\* DELETE /api/cart/:productId, storage.removeFromCart: one delete statement.
RemoveFromCart(u, p, res) ==
    /\ IF res = "error"
         THEN /\ resp' = Response("removeFromCart", u, 500, NoOrder)
              /\ UNCHANGED cart
         ELSE /\ cart' = removeFromCart(cart, u, p)
              /\ resp' = Response("removeFromCart", u, 200, NoOrder)
    /\ UNCHANGED <<adminVars, products, orders, ratings, timers, checkouts, nextOrderId, vendorVars, reqs>>

(* ----------------------------- checkout -------------------------------- *)
\* createOrder without the guard on an empty cart.
cartNeverEmpty(items) == FALSE

\* `if (cartItems.length === 0) throw new Error('Cart is empty')`
cartIsEmpty(items) == items = {}

\* `return orders[0]`
firstOf(created) == IF created = <<>> THEN NoOrder ELSE created[1]

\* The orders in which Object.entries(itemsByVendor) may list the vendors: the
\* store returns the cart lines in no promised order.
vendorOrders(items) ==
    LET V == vendorsOf(items)
        n == Cardinality(V)
    IN { f \in [1..n -> V] : \A i, j \in 1..n : f[i] = f[j] => i = j }

\* The rows the first n turns of the loop insert, with ids base, base + 1, ...
insertedOrders(u, items, vs, n, base) ==
    { newOrder(base + i - 1, u, vs[i], itemsByVendor(items, vs[i])) : i \in 1..n }

\* A createOrder that schedules the fulfillment of the first order only.
scheduleFirstOnly(tm, base, n) == IF n = 0 THEN tm ELSE schedule(tm, base)

RECURSIVE scheduleEach(_, _, _)
scheduleEach(tm, base, n) ==
    IF n = 0 THEN tm ELSE schedule(scheduleEach(tm, base, n - 1), base + n - 1)

\* A checkout that takes the ordered quantities out of the stock.
productsStockTaken(prods, items) ==
    { LET taken == SumLines({ [price |-> 1, quantity |-> i.quantity, product_id |-> i.product_id] :
                                 i \in { j \in items : j.product_id = pr.id } })
      IN [pr EXCEPT !.stock = pr.stock - taken] : pr \in prods }

\* storage.createOrder: the products table after a checkout of the lines items.
\* The function writes to orders and cart only.
productsAfterOrder(prods, items) == prods

\* POST /api/orders/checkout with storage.createOrder as one step (no other
\* request in between): the cart read, `done` successful turns of the loop over
\* the vendors in the order vs, and clearCart when every insert succeeded.
Checkout(u, vs, done, resRead, resClear) ==
    LET items == IF resRead = "error" THEN {} ELSE getCartItems(cart, products, u) IN
    /\ vs \in vendorOrders(items)
    /\ done \in 0..Len(vs)
    /\ IF cartIsEmpty(items)
         THEN /\ resp' = Response("checkout", u, 500, NoOrder)
              /\ UNCHANGED <<products, cart, orders, timers, checkouts, nextOrderId>>
         ELSE /\ checkouts' = checkouts + 1
              /\ products' = productsAfterOrder(products, items)
              /\ orders' = orders \cup insertedOrders(u, items, vs, done, nextOrderId)
              /\ nextOrderId' = nextOrderId + done
              /\ IF done = Len(vs) /\ resClear = "ok"
                   THEN /\ cart' = clearCart(cart, u)
                        /\ timers' = schedule(scheduleEach(timers, nextOrderId, done),
                                              IF done = 0 THEN NoOrder ELSE nextOrderId)
                        /\ resp' = Response("checkout", u, 200,
                                            IF done = 0 THEN NoOrder ELSE nextOrderId)
                   ELSE /\ timers' = scheduleEach(timers, nextOrderId, done)
                        /\ resp' = Response("checkout", u, 500, NoOrder)
                        /\ UNCHANGED cart
    /\ UNCHANGED <<adminVars, ratings, vendorVars, reqs>>

\* POST /api/orders/checkout, storage.createOrder, first statement: getCartItems,
\* which answers [] when the store fails.
CheckoutRead(s, u, res) ==
    /\ FreeSlot(s)
    /\ LET items == IF res = "error" THEN {} ELSE getCartItems(cart, products, u) IN
       IF cartIsEmpty(items)
         THEN /\ resp' = Response("checkout", u, 500, NoOrder)
              /\ UNCHANGED <<reqs, checkouts>>
         ELSE /\ reqs' = [reqs EXCEPT ![s] =
                    [Idle EXCEPT !.op = "checkout", !.pc = "insert", !.user_id = u,
                                 !.cartItems = items, !.todo = vendorsOf(items)]]
              /\ checkouts' = checkouts + 1
              /\ UNCHANGED resp
    /\ UNCHANGED <<adminVars, products, cart, orders, ratings, timers, nextOrderId, vendorVars>>

\* A turn of the loop that skips the insert when the same user already has an
\* order of the same vendor with the same items.
CheckoutInsertOnce(s, v, res) ==
    /\ reqs[s].op = "checkout" /\ reqs[s].pc = "insert"
    /\ v \in reqs[s].todo
    /\ res = "ok"
    /\ LET r == reqs[s]
           dup == \E o \in orders : /\ o.user_id = r.user_id /\ o.vendor_id = v
                                     /\ o.items = itemsByVendor(r.cartItems, v)
       IN /\ orders' = IF dup THEN orders
                       ELSE orders \cup { newOrder(nextOrderId, r.user_id, v,
                                                   itemsByVendor(r.cartItems, v)) }
          /\ timers' = IF dup THEN timers ELSE schedule(timers, nextOrderId)
          /\ nextOrderId' = IF dup THEN nextOrderId ELSE nextOrderId + 1
          /\ reqs' = [reqs EXCEPT ![s].todo = r.todo \ {v},
                                  ![s].created = IF dup THEN r.created
                                                 ELSE Append(r.created, nextOrderId),
                                  ![s].pc = IF r.todo = {v} THEN "clear" ELSE "insert"]
          /\ UNCHANGED resp
    /\ UNCHANGED <<adminVars, products, cart, ratings, checkouts, vendorVars>>

\* storage.createOrder, one turn of the loop over the vendors: insert the vendor's
\* order and schedule its fulfillment; a failed insert ends the request with 500.
CheckoutInsert(s, v, res) ==
    /\ reqs[s].op = "checkout" /\ reqs[s].pc = "insert"
    /\ v \in reqs[s].todo
    /\ LET r == reqs[s] IN
       IF res = "error"
         THEN /\ Finish(s, Response("checkout", r.user_id, 500, NoOrder))
              /\ UNCHANGED <<orders, timers, nextOrderId>>
         ELSE /\ orders' = orders \cup
                    { newOrder(nextOrderId, r.user_id, v, itemsByVendor(r.cartItems, v)) }
              /\ timers' = schedule(timers, nextOrderId)
              /\ nextOrderId' = nextOrderId + 1
              /\ reqs' = [reqs EXCEPT ![s].todo = r.todo \ {v},
                                      ![s].created = Append(r.created, nextOrderId),
                                      ![s].pc = IF r.todo = {v} THEN "clear" ELSE "insert"]
              /\ UNCHANGED resp
    /\ UNCHANGED <<adminVars, products, cart, ratings, checkouts, vendorVars>>

\* storage.createOrder, last statement: clearCart, then `return orders[0]`; the
\* route schedules a second fulfillment of the returned order and answers 200.
CheckoutClear(s, res) ==
    /\ reqs[s].op = "checkout" /\ reqs[s].pc = "clear"
    /\ LET r == reqs[s] IN
       IF res = "error"
         THEN /\ Finish(s, Response("checkout", r.user_id, 500, NoOrder))
              /\ UNCHANGED <<cart, timers>>
         ELSE /\ cart' = clearCart(cart, r.user_id)
              /\ timers' = schedule(timers, firstOf(r.created))
              /\ Finish(s, Response("checkout", r.user_id, 200, firstOf(r.created)))
    /\ UNCHANGED <<adminVars, products, orders, ratings, checkouts, nextOrderId, vendorVars>>

\* A scheduled callback fires: updateOrderStatus(order.id, 'fulfilled'); a failure
\* is caught and logged by the callback.
FireTimer(o, res) ==
    /\ o \in DOMAIN timers
    /\ timers[o] > 0
    /\ timers' = [timers EXCEPT ![o] = timers[o] - 1]
    /\ orders' = IF res = "error" THEN orders ELSE updateOrderStatus(orders, o, "fulfilled")
    /\ UNCHANGED <<adminVars, products, cart, ratings, checkouts, nextOrderId, vendorVars, reqs, resp>>

(* ------------------------------ ratings -------------------------------- *)
\* A rating request body: rating and comment as sent.
RateBodies ==
    { [rating |-> 0, comment |-> NoComment],
      [rating |-> 3, comment |-> ""],
      [rating |-> 5, comment |-> "nice"] }

\* `comment || null`
commentOrNull(c) == IF c = "" THEN NoComment ELSE c

\* A lookup that lost its `.eq('user_id', userId)` filter.
rateOrderLookupAnyUser(ords, u, o) == { x \in ords : x.id = o }

\* storage.rateOrder: select items from orders where id = o and user_id = u.
rateOrderLookup(ords, u, o) == { x \in ords : x.id = o /\ x.user_id = u }

\* A rating of the first item only instead of every item.
ratingRowsFirstItem(u, items, rating, comment) ==
    { [user_id |-> u, product_id |-> (CHOOSE i \in items : TRUE).product_id,
       rating |-> rating, comment |-> IF comment = "" THEN NoComment ELSE comment] }

\* storage.rateOrder: order.items.map(item => ({user_id, product_id, rating, comment})).
ratingRows(u, items, rating, comment) ==
    { [user_id |-> u, product_id |-> i.product_id, rating |-> rating,
       comment |-> commentOrNull(comment)] : i \in items }

\* A ratings table without the CHECK on rating.
ratingRowUnchecked(prods, row) == \E pr \in prods : pr.id = row.product_id

\* The ratings table accepts a row when its rating passes CHECK (1..5) and its
\* product exists (foreign key).
ratingRowOk(prods, row) ==
    /\ row.rating >= 1 /\ row.rating <= 5
    /\ \E pr \in prods : pr.id = row.product_id

\* A plain insert on a table without the unique constraint.
insertRatings(rt, rows) == rt \cup rows

\* upsert(rows, {onConflict: 'user_id,product_id', ignoreDuplicates: false})
upsertRatings(rt, rows) ==
    { r \in rt : ~\E n \in rows : n.user_id = r.user_id /\ n.product_id = r.product_id }
        \cup rows

\* `!rating || rating < 1 || rating > 5` of POST /api/orders/:orderId/rate
ratingRejected(rating) == rating = 0 \/ rating < 1 \/ rating > 5

\* storage.rateOrder as called by the routes POST /api/orders/:orderId/rate
\* ("param", which validates the rating) and POST /api/orders/rate ("body").
RateOrder(route, u, o, b, res) ==
    /\ LET found == rateOrderLookup(orders, u, o)
           rows == ratingRows(u, (CHOOSE x \in found : TRUE).items, b.rating, b.comment)
       IN IF route = "param" /\ ratingRejected(b.rating)
            THEN /\ resp' = Response("rate", u, 400, NoOrder)
                 /\ UNCHANGED ratings
            ELSE IF res = "error" \/ found = {}
              THEN /\ resp' = Response("rate", u, 500, NoOrder)
                   /\ UNCHANGED ratings
              ELSE IF \A row \in rows : ratingRowOk(products, row)
                THEN /\ ratings' = upsertRatings(ratings, rows)
                     /\ resp' = Response("rate", u, 200, NoOrder)
                ELSE /\ resp' = Response("rate", u, 500, NoOrder)
                     /\ UNCHANGED ratings
    /\ UNCHANGED <<adminVars, products, cart, orders, timers, checkouts, nextOrderId, vendorVars, reqs>>

(* ------------------------------ catalogue ------------------------------ *)
\* storage.updateProduct: update products set price where id = p.
updateProduct(prods, p, price) ==
    { IF pr.id = p THEN [pr EXCEPT !.price = price] ELSE pr : pr \in prods }

\* storage.deleteProduct: delete from products where id = p.
deleteProduct(prods, p) == { pr \in prods : pr.id # p }

\* ON DELETE CASCADE of cart.product_id and ratings.product_id.
cascadeProduct(rows, p) == { r \in rows : r.product_id # p }

\* Orders that referenced products by key and cascaded with them.
ordersCascadeWithProduct(ords, p) ==
    { o \in ords : \A i \in o.items : i.product_id # p }

\* orders.items is a jsonb snapshot without a foreign key to products: a write
\* to products reaches no order.
ordersAfterProductWrite(ords, p) == ords

\* A check that the product exists, whoever owns it.
productExists(prods, u, p) == \E pr \in prods : pr.id = p

\* The owner check of PATCH and DELETE /api/vendor/products/:id.
ownsProduct(prods, u, p) == \E pr \in prods : pr.id = p /\ pr.vendor_id = u

\* PATCH /api/vendor/products/:id with a new price.
UpdateProduct(u, p, price, res) ==
    /\ IF ~ownsProduct(products, u, p)
         THEN /\ resp' = Response("updateProduct", u, 403, NoOrder)
              /\ UNCHANGED <<products, orders>>
         ELSE IF res = "error"
           THEN /\ resp' = Response("updateProduct", u, 500, NoOrder)
                /\ UNCHANGED <<products, orders>>
           ELSE /\ products' = updateProduct(products, p, price)
                /\ orders' = ordersAfterProductWrite(orders, p)
                /\ resp' = Response("updateProduct", u, 200, NoOrder)
    /\ UNCHANGED <<adminVars, cart, ratings, timers, checkouts, nextOrderId, vendorVars, reqs>>

\* DELETE /api/vendor/products/:id.
DeleteProduct(u, p, res) ==
    /\ IF ~ownsProduct(products, u, p)
         THEN /\ resp' = Response("deleteProduct", u, 403, NoOrder)
              /\ UNCHANGED <<products, cart, ratings, orders>>
         ELSE IF res = "error"
           THEN /\ resp' = Response("deleteProduct", u, 500, NoOrder)
                /\ UNCHANGED <<products, cart, ratings, orders>>
           ELSE /\ products' = deleteProduct(products, p)
                /\ cart' = cascadeProduct(cart, p)
                /\ ratings' = cascadeProduct(ratings, p)
                /\ orders' = ordersAfterProductWrite(orders, p)
                /\ resp' = Response("deleteProduct", u, 200, NoOrder)
    /\ UNCHANGED <<adminVars, timers, checkouts, nextOrderId, vendorVars, reqs>>

\* A member a request body does not have, and a price it does not have.
Missing == "undefined"
NoPrice == -1

\* Bodies of POST /api/vendor/products: complete, or lacking one member.
ProductBodies ==
    { [name |-> "Lamp", price |-> 4, category |-> "Home"],
      [name |-> Missing, price |-> 4, category |-> "Home"],
      [name |-> "Lamp", price |-> NoPrice, category |-> "Home"],
      [name |-> "Lamp", price |-> 4, category |-> Missing] }

\* The ids gen_random_uuid() gives to new products.
NewProducts == {"p4"}

\* insert into products: name and price are NOT NULL, category may be NULL,
\* and vendor_id must name a user.
productInsertOk(us, row) ==
    /\ row.name # Missing
    /\ row.price # NoPrice
    /\ row.vendor_id \in us

\* storage.createProduct: insert({...req.body, vendor_id: userId}); an absent
\* category is stored as NULL.
createProduct(prods, us, id, u, body) ==
    LET row == [id |-> id, vendor_id |-> u, price |-> body.price, name |-> body.name,
                category |-> IF body.category = Missing THEN "null" ELSE body.category,
                stock |-> 0]
    IN IF productInsertOk(us, row) THEN prods \cup {row} ELSE prods

\* POST /api/vendor/products: no check of the body before the insert.
CreateProduct(u, id, body, res) ==
    /\ \A pr \in products : pr.id # id
    /\ LET after == IF res = "error" THEN products
                    ELSE createProduct(products, users, id, u, body)
       IN /\ products' = after
          /\ resp' = Response("createProduct", u, IF after = products THEN 500 ELSE 200,
                              NoOrder)
    /\ UNCHANGED <<adminVars, cart, orders, ratings, timers, checkouts, nextOrderId,
                   vendorVars, reqs>>

(* --------------------------- vendor profiles --------------------------- *)
\* Bodies of PUT /api/vendor/profile: any members, known columns or not.
VendorBodies ==
    { [is_approved |-> TRUE],
      [is_approved |-> FALSE],
      [brand_name |-> "Acme"],
      [brand_name |-> "Acme", is_approved |-> TRUE, business_email |-> "a@b.c"] }

\* The list of updatable columns without is_approved.
allowedFieldsNoApproval ==
    {"brand_name", "business_name", "business_type", "business_address",
     "phone_number", "logo_url", "contact_email", "bio"}

\* storage.updateVendorProfile: the columns an update may name.
allowedFields == {"brand_name", "business_name", "business_type", "business_address",
                  "phone_number", "logo_url", "contact_email", "bio", "is_approved"}

\* Object.keys(updates).filter(key => allowedFields.includes(key)).reduce(...)
filteredUpdates(updates) ==
    [k \in (DOMAIN updates) \cap allowedFields |-> updates[k]]

profileRow(profiles, v) == { r \in profiles : r.user_id = v }

\* update vendor_profiles set <filteredUpdates> where user_id = v
profileUpdated(row, f) ==
    [user_id |-> row.user_id,
     brand_name |-> IF "brand_name" \in DOMAIN f THEN f.brand_name ELSE row.brand_name,
     is_approved |-> IF "is_approved" \in DOMAIN f THEN f.is_approved ELSE row.is_approved]

\* insert {user_id, brand_name: filteredUpdates.brand_name || 'Default Brand',
\* ...filteredUpdates}; is_approved defaults to false.
profileInserted(v, f) ==
    [user_id |-> v,
     brand_name |-> IF "brand_name" \in DOMAIN f THEN f.brand_name ELSE "Default Brand",
     is_approved |-> IF "is_approved" \in DOMAIN f THEN f.is_approved ELSE FALSE]

\* JSON of a boolean member of a response body.
jsonBool(b) == IF b THEN "true" ELSE "false"

\* storage.getVendorProfile: the row, or the default object (which has no
\* is_approved member) when there is no row or the store fails.
getVendorProfile(profiles, v, res) ==
    IF res = "error" \/ profileRow(profiles, v) = {}
      THEN "undefined"
      ELSE jsonBool((CHOOSE r \in profileRow(profiles, v) : TRUE).is_approved)

\* GET /api/vendor/profile.
GetVendorProfile(v, res) ==
    /\ resp' = [Response("getVendorProfile", v, 200, NoOrder)
                  EXCEPT !.is_approved = getVendorProfile(vendor_profiles, v, res)]
    /\ UNCHANGED <<adminVars, shopVars, vendorVars, reqs>>

\* storage.updateVendorProfile: the profiles after the write, given what the
\* select of the existing row found; "conflict" when the insert meets a row.
updateVendorProfile(profiles, v, updates, found) ==
    LET f == filteredUpdates(updates) IN
    IF found
      THEN [ok |-> TRUE,
            profiles |-> { IF r.user_id = v THEN profileUpdated(r, f) ELSE r : r \in profiles }]
      ELSE IF profileRow(profiles, v) # {}
        THEN [ok |-> FALSE, profiles |-> profiles]
        ELSE [ok |-> TRUE, profiles |-> profiles \cup { profileInserted(v, f) }]

\* PUT /api/vendor/profile with storage.updateVendorProfile as one step.  A failed
\* select is not checked by the code: it leaves existingProfile null and the
\* insert branch runs.
UpdateVendorProfile(v, updates, resSelect, resWrite) ==
    /\ LET found == resSelect = "ok" /\ profileRow(vendor_profiles, v) # {}
           w == updateVendorProfile(vendor_profiles, v, updates, found)
       IN IF resWrite = "error" \/ ~w.ok
            THEN /\ resp' = Response("updateVendorProfile", v, 500, NoOrder)
                 /\ UNCHANGED vendorVars
            ELSE /\ vendor_profiles' = w.profiles
                 /\ lastToggle' = IF "is_approved" \in DOMAIN updates
                                    THEN [lastToggle EXCEPT ![v] = jsonBool(updates.is_approved)]
                                    ELSE lastToggle
                 /\ resp' = [Response("updateVendorProfile", v, 200, NoOrder)
                               EXCEPT !.is_approved =
                                   getVendorProfile(w.profiles, v, "ok")]
    /\ UNCHANGED <<adminVars, shopVars, reqs>>

(* ------------------- Spec: shopping, one request at a time ------------- *)
Shoppers == {"u1"}
AddQtys == {NoQty} \cup (1..MaxQty)

\* Shopping goes on while a further checkout can still happen.
ShopOpen == checkouts < MaxCheckouts

\* What the checkout of u reads from the store.
readCart(u, res) == IF res = "error" THEN {} ELSE getCartItems(cart, products, u)

\* A checkout is let in while the bound on checkouts is not reached; one that
\* reads nothing fails at once and does not count.
CheckoutOpen(u, res) == readCart(u, res) = {} \/ checkouts < MaxCheckouts

\* The cart routes, the store answering.
Shop ==
    \/ \E u \in Shoppers, p \in Products, q \in AddQtys : AddToCart(u, p, q, "ok", "ok")
    \/ \E u \in Shoppers, p \in Products, q \in 1..MaxQty : UpdateCartItem(u, p, q, "ok")
    \/ \E u \in Shoppers, p \in Products : RemoveFromCart(u, p, "ok")

Pay ==
    \E u \in Shoppers, r1 \in StoreResults :
       /\ CheckoutOpen(u, r1)
       /\ \E vs \in vendorOrders(readCart(u, r1)) :
             \E done \in 0..Len(vs) :
                \E r2 \in (IF done = Len(vs) THEN StoreResults ELSE {"ok"}) :
                   Checkout(u, vs, done, r1, r2)

Fire == \E o \in DOMAIN timers, res \in StoreResults : FireTimer(o, res)

Next ==
    \/ \E op \in {"addToCart", "checkout"} : Unauthenticated(op)
    \/ ShopOpen /\ Shop
    \/ Pay

Spec == Init /\ [][Next]_vars

(* ------------- SpecFulfil: checkouts and their fulfillment ------------- *)
\* New lines of quantity 1 only.
ShopNew ==
    \E u \in Shoppers, p \in Products :
       existingQty(cart, u, p) = NoQty /\ AddToCart(u, p, NoQty, "ok", "ok")

NextFulfil ==
    \/ ShopOpen /\ ShopNew
    \/ Pay
    \/ Fire

SpecFulfil == Init /\ [][NextFulfil]_vars

(* --------------- SpecRace: requests that interleave --------------------- *)
RaceProducts == {"p1", "p3"}

NextRace ==
    \/ \E s \in Slots, u \in Shoppers, p \in RaceProducts :
          ShopOpen /\ AddToCartSelect(s, u, p, NoQty, "ok")
    \/ \E s \in Slots : AddToCartWrite(s, "ok")
    \/ \E u \in Shoppers, p \in RaceProducts, q \in 1..MaxQty :
          ShopOpen /\ UpdateCartItem(u, p, q, "ok")
    \/ \E u \in Shoppers, p \in RaceProducts : ShopOpen /\ RemoveFromCart(u, p, "ok")
    \/ \E s \in Slots, u \in Shoppers : CheckoutOpen(u, "ok") /\ CheckoutRead(s, u, "ok")
    \/ \E s \in Slots, v \in Vendors : CheckoutInsert(s, v, "ok")
    \/ \E s \in Slots : CheckoutClear(s, "ok")

SpecRace == Init /\ [][NextRace]_vars

(* ------------- SpecDouble: checkouts that run side by side -------------- *)
MaxDouble == 2      \* checkouts in a behaviour of SpecDouble

NextDouble ==
    \/ \E u \in Shoppers, p \in RaceProducts :
          /\ checkouts = 0 /\ existingQty(cart, u, p) = NoQty
          /\ AddToCart(u, p, NoQty, "ok", "ok")
    \/ \E s \in Slots, u \in Shoppers :
          /\ checkouts < MaxDouble /\ readCart(u, "ok") # {}
          /\ CheckoutRead(s, u, "ok")
    \/ \E s \in Slots, v \in Vendors : CheckoutInsert(s, v, "ok")
    \/ \E s \in Slots : CheckoutClear(s, "ok")

SpecDouble == Init /\ [][NextDouble]_vars

(* ------------------ SpecRate: orders and their ratings ------------------ *)
MaxRated == 2       \* checkouts in a behaviour of SpecRate
RateProducts == {"p1", "p2"}
RateRoutes == {"param", "body"}

PayAll ==
    \E u \in Shoppers :
       /\ readCart(u, "ok") # {}
       /\ \E vs \in vendorOrders(readCart(u, "ok")) : Checkout(u, vs, Len(vs), "ok", "ok")

\* Ratings name an order that exists; the store fails on some of them.
Rate ==
    \E u \in Users, o \in { x.id : x \in orders }, b \in RateBodies :
       \/ \E route \in RateRoutes : RateOrder(route, u, o, b, "ok")
       \/ RateOrder("body", u, o, b, "error")

NextRate ==
    \/ checkouts < MaxRated /\
          \E u \in Shoppers, p \in RateProducts :
             existingQty(cart, u, p) = NoQty /\ AddToCart(u, p, NoQty, "ok", "ok")
    \/ checkouts < MaxRated /\ PayAll
    \/ \E o \in DOMAIN timers : FireTimer(o, "ok")
    \/ Rate

SpecRate == Init /\ [][NextRate]_vars

(* ------------- SpecFail: the store fails on any statement --------------- *)
NextFail ==
    \/ \E u \in Shoppers, p \in RaceProducts, r1, r2 \in StoreResults :
          ShopOpen /\ AddToCart(u, p, NoQty, r1, r2)
    \/ \E u \in Shoppers, p \in RaceProducts, q \in 1..MaxQty, res \in StoreResults :
          ShopOpen /\ UpdateCartItem(u, p, q, res)
    \/ \E u \in Shoppers, p \in RaceProducts, res \in StoreResults :
          ShopOpen /\ RemoveFromCart(u, p, res)
    \/ \E u \in Shoppers, res \in StoreResults : GetCartCount(u, res)
    \/ Pay

SpecFail == Init /\ [][NextFail]_vars

(* ------------- SpecRating: any rating in the request body ------------- *)
\* Bodies with a rating below, inside and above the range.
AnyRateBodies == { [rating |-> r, comment |-> NoComment] : r \in {-1, 0, 1, 5, 6} }

NextRating ==
    \/ ShopOpen /\ ShopNew
    \/ ShopOpen /\ PayAll
    \/ \E o \in DOMAIN timers : FireTimer(o, "ok")
    \/ \E u \in Shoppers, o \in { x.id : x \in orders }, b \in AnyRateBodies,
          route \in RateRoutes : RateOrder(route, u, o, b, "ok")

SpecRating == Init /\ [][NextRating]_vars

(* ------------- SpecCart: any quantity in the request body --------------- *)
\* The quantities a body of POST /api/cart or PATCH /api/cart/:productId may
\* carry: insertCartSchema takes any integer or none, the PATCH route takes
\* the member as it comes.
BodyQtys == {NoQty, -1, 0, 1, 2}

NextCart ==
    \/ \E u \in Shoppers, p \in RaceProducts, q \in BodyQtys :
          /\ ShopOpen /\ QtyAfterAdd(cart, u, p, q) >= -MaxQty
          /\ AddToCart(u, p, q, "ok", "ok")
    \/ \E u \in Shoppers, p \in RaceProducts, q \in BodyQtys \ {NoQty} :
          ShopOpen /\ UpdateCartItem(u, p, q, "ok")
    \/ \E u \in Shoppers, p \in RaceProducts : ShopOpen /\ RemoveFromCart(u, p, "ok")
    \/ ShopOpen /\ PayAll

SpecCart == Init /\ [][NextCart]_vars

(* --------------- SpecCatalog: products written after orders ------------- *)
NewPrices == {7}

Catalog ==
    \/ \E u \in Vendors, p \in Products, price \in NewPrices :
          UpdateProduct(u, p, price, "ok")
    \/ \E u \in Vendors, p \in Products : DeleteProduct(u, p, "ok")

NextCatalog ==
    \/ ShopOpen /\ ShopNew
    \/ ShopOpen /\ PayAll
    \/ Catalog

SpecCatalog == Init /\ [][NextCatalog]_vars

(* ------------------- SpecVendor: vendor profiles ------------------------ *)
NextVendor ==
    \/ Unauthenticated("getVendorProfile")
    \/ \E v \in Vendors, res \in StoreResults : GetVendorProfile(v, res)
    \/ \E v \in Vendors, b \in VendorBodies, r1 \in StoreResults :
          \E r2 \in StoreResults : UpdateVendorProfile(v, b, r1, r2)

SpecVendor == Init /\ [][NextVendor]_vars

(* --------------------- settings and server start ----------------------- *)
\* Objects passed to updateSettings.
SettingsBodies ==
    { [site_name |-> "MyShop"],
      [site_name |-> "Bazaar", maintenance_mode |-> "true"],
      [platform_name |-> "Other"],
      [banner |-> "hi"] }

\* The rows of an object whose keys are in keys.
rowsOf(obj, keys) == [k \in (DOMAIN obj) \cap keys |-> obj[k]]

\* storage.updateSettings: one upsert per entry; the first one that fails ends
\* the loop with 'Failed to update settings', the rows `written` before it stay.
UpdateSettings(obj, written) ==
    /\ written \subseteq DOMAIN obj
    /\ settings' = upsertSettings(settings, rowsOf(obj, written))
    /\ resp' = Response("updateSettings", NoUser,
                        IF written = DOMAIN obj THEN 200 ELSE 500, NoOrder)
    /\ UNCHANGED <<users, shopVars, vendorVars, reqs>>

\* A start that arms one callback again for every order that had one.
timersRearmed(tm) == [id \in DOMAIN tm |-> 1]

\* The callbacks of setTimeout live in the memory of the process.
timersAfterRestart(tm) == <<>>

\* The server process stops and starts again: requests in flight and pending
\* callbacks are gone, and the constructor of the storage runs
\* initializeDatabase, whose upserts fail or succeed one by one (`applied`).
Restart(applied) ==
    /\ applied \subseteq DOMAIN defaultSettings
    /\ timers' = timersAfterRestart(timers)
    /\ reqs' = [s \in Slots |-> Idle]
    /\ settings' = upsertSettings(settings, rowsOf(defaultSettings, applied))
    /\ UNCHANGED <<users, products, cart, orders, ratings, checkouts, nextOrderId,
                   vendorVars, resp>>

(* ------------------------------- users --------------------------------- *)
\* orders.vendor_id references users without ON DELETE: a user who is the
\* vendor of an order of somebody else cannot be deleted.
deleteUserBlocked(ords, id) == \E o \in ords : o.vendor_id = id /\ o.user_id # id

\* ON DELETE CASCADE of a foreign key to users, and of product_id behind it.
cascadeUser(rows, id, gone) == { r \in rows : r.user_id # id /\ r.product_id \notin gone }

\* DELETE /api/admin/users/:id, storage.deleteUser: delete from users where
\* id = id, with the cascades of the schema.
DeleteUser(id, res) ==
    /\ IF res = "error" \/ deleteUserBlocked(orders, id)
         THEN /\ resp' = Response("deleteUser", NoUser, 500, NoOrder)
              /\ UNCHANGED <<users, products, cart, orders, ratings, vendor_profiles>>
         ELSE LET gone == { pr.id : pr \in { x \in products : x.vendor_id = id } } IN
              /\ users' = users \ {id}
              /\ products' = { pr \in products : pr.vendor_id # id }
              /\ cart' = cascadeUser(cart, id, gone)
              /\ ratings' = cascadeUser(ratings, id, gone)
              /\ orders' = { o \in orders : o.user_id # id }
              /\ vendor_profiles' = { r \in vendor_profiles : r.user_id # id }
              /\ resp' = Response("deleteUser", NoUser, 200, NoOrder)
    /\ UNCHANGED <<settings, timers, checkouts, nextOrderId, lastToggle, reqs>>

(* --------------------------- registration ------------------------------ *)
\* The ids gen_random_uuid() gives to new users, and the names of a body.
NewUsers == {"n1", "n2", "n3"}
Roles == {"user", "vendor"}
NoName == ""
UserNames == {NoName, "Ada"}

\* The columns of a users row, which select('*') and .select() return.
UserColumns == {"id", "email", "password_hash", "role", "name"}

\* `const { password_hash, ...userWithoutPassword } = user`
withoutPassword(cols) == cols \ {"password_hash"}

\* The vendor_profiles row createUser inserts: `userData.name || 'New Vendor'`.
profileOfNewVendor(id, name) ==
    [user_id |-> id, brand_name |-> IF name = NoName THEN "New Vendor" ELSE name,
     is_approved |-> FALSE]

\* POST /api/auth/register, storage.createUser: the insert into users, whose
\* error is thrown, then for a vendor the insert into vendor_profiles, whose
\* result is not looked at.
CreateUser(id, role, name, resUser, resProfile) ==
    /\ id \notin users
    /\ IF resUser = "error"
         THEN /\ resp' = Response("register", id, 500, NoOrder)
              /\ UNCHANGED <<users, vendor_profiles>>
         ELSE /\ users' = users \cup {id}
              /\ vendor_profiles' =
                    IF role = "vendor" /\ resProfile = "ok"
                      THEN vendor_profiles \cup { profileOfNewVendor(id, name) }
                      ELSE vendor_profiles
              /\ resp' = [Response("register", id, 200, NoOrder)
                            EXCEPT !.keys = withoutPassword(UserColumns)]
    /\ UNCHANGED <<settings, shopVars, lastToggle, reqs>>

\* The routes that answer with user records: login, the profile read and
\* update, the lookup by id, the admin's lists and the admin's update.
UserRoutes == {"login", "getProfile", "getUser", "patchProfile", "adminUsers",
               "adminVendors", "adminPatchUser"}

\* The members of the user records in the body of a route's 200 answer.
userBodyKeys(route) ==
    IF route = "adminPatchUser"
      THEN UserColumns                       \* res.json(user)
      ELSE withoutPassword(UserColumns)      \* the route or the storage strips it

\* The status a route answers when the user is missing or the store fails.
userRouteFailure(route) ==
    CASE route = "login" -> 401
      [] route \in {"getProfile", "getUser"} -> 404
      [] route \in {"patchProfile", "adminPatchUser"} -> 500
      [] OTHER -> 200                        \* the lists answer []

\* A request to one of the routes for the user id.
UserRoute(route, id, res) ==
    /\ resp' = IF res = "ok" /\ id \in users
                 THEN [Response(route, id, 200, NoOrder)
                         EXCEPT !.keys = userBodyKeys(route)]
                 ELSE Response(route, id, userRouteFailure(route), NoOrder)
    /\ UNCHANGED <<adminVars, shopVars, vendorVars, reqs>>

(* --------------- SpecRegister: users and vendors sign up ---------------- *)
NextRegister ==
    \/ \E id \in NewUsers, role \in Roles, name \in UserNames, r1, r2 \in StoreResults :
          CreateUser(id, role, name, r1, r2)
    \/ \E id \in NewUsers : id \in users /\ DeleteUser(id, "ok")

SpecRegister == Init /\ [][NextRegister]_vars

(* --------------- SpecUsers: the routes that return users ---------------- *)
NextUsers ==
    \/ \E id \in NewUsers, role \in Roles, name \in UserNames :
          CreateUser(id, role, name, "ok", "ok")
    \/ \E id \in NewUsers : id \in users /\ DeleteUser(id, "ok")
    \/ \E route \in UserRoutes, id \in Users \cup NewUsers, res \in StoreResults :
          UserRoute(route, id, res)

SpecUsers == Init /\ [][NextUsers]_vars

(* ----------------- SpecAdmin: users deleted after orders ---------------- *)
NextAdmin ==
    \/ ShopOpen /\ Shoppers \subseteq users /\ ShopNew
    \/ ShopOpen /\ PayAll
    \/ \E id \in Users \cup Vendors, res \in StoreResults : DeleteUser(id, res)

SpecAdmin == Init /\ [][NextAdmin]_vars

(* --------------- SpecSettings: settings across restarts ---------------- *)
NextSettings ==
    \/ ShopOpen /\ ShopNew
    \/ \E obj \in SettingsBodies : \E written \in SUBSET DOMAIN obj :
          UpdateSettings(obj, written)
    \/ \E applied \in SUBSET DOMAIN defaultSettings : Restart(applied)

SpecSettings == Init /\ [][NextSettings]_vars

(* ------------------ SpecCreate: vendors add products -------------------- *)
NextCreate ==
    \/ \E u \in Vendors, id \in NewProducts, b \in ProductBodies, res \in StoreResults :
          CreateProduct(u, id, b, res)
    \/ \E u \in Vendors, p \in Products \cup NewProducts :
          \/ \E price \in NewPrices : UpdateProduct(u, p, price, "ok")
          \/ DeleteProduct(u, p, "ok")

SpecCreate == Init /\ [][NextCreate]_vars

(* --------- SpecLive: the server keeps running, callbacks fire ---------- *)
\* The ids orders can get: one per vendor and checkout.
OrderIds == 1..(MaxCheckouts * Cardinality(Vendors))

\* A callback fires and its status update is applied.
FireOk(o) == FireTimer(o, "ok")

NextRestart ==
    \/ ShopOpen /\ ShopNew
    \/ ShopOpen /\ PayAll
    \/ Fire
    \/ Restart(DOMAIN defaultSettings)

SpecRestart == Init /\ [][NextRestart]_vars

NextLive ==
    \/ ShopOpen /\ ShopNew
    \/ Pay
    \/ \E o \in OrderIds : FireOk(o)

\* The process keeps running: every pending callback fires in the end.
SpecLive == Init /\ [][NextLive]_vars /\ \A o \in OrderIds : WF_vars(FireOk(o))

(* ============================ properties =============================== *)
(* --------------------------- checkout (Spec) --------------------------- *)
\* C1: a checkout that succeeds for a user whose cart holds lines of V >= 1
\* vendors creates exactly V new orders, one per vendor, each with total equal to
\* the sum of unit price x quantity over that vendor's cart lines as read at the
\* checkout, and afterwards the user's cart has no lines.
C1_CheckoutOrdersPerVendor ==
    [][\A u \in Users :
         (/\ resp'.op = "checkout" /\ resp'.user_id = u /\ resp'.status = 200
          /\ checkouts' = checkouts + 1)
         => LET lines == { r \in cart : r.user_id = u }
                prodOf(r) == CHOOSE pr \in products : pr.id = r.product_id
                V == { prodOf(r).vendor_id : r \in lines }
                amounts(v) == { [product_id |-> r.product_id, price |-> prodOf(r).price,
                                 quantity |-> r.quantity] :
                                  r \in { l \in lines : prodOf(l).vendor_id = v } }
                created == orders' \ orders
            IN /\ V # {}
               /\ Cardinality(created) = Cardinality(V)
               /\ \A v \in V :
                     \E o \in created :
                        /\ o.vendor_id = v /\ o.user_id = u
                        /\ o.total = SumLines(amounts(v))
                        /\ { i.product_id : i \in o.items } = { a.product_id : a \in amounts(v) }
               /\ { r \in cart' : r.user_id = u } = {}
      ]_vars

\* A checkout answered 200 that created two orders, one of two lines and one
\* holding a line of quantity 2, and left the cart without lines.
C1_Witness ==
    /\ resp.op = "checkout" /\ resp.status = 200
    /\ Cardinality(orders) = 2
    /\ \E o \in orders : Cardinality(o.items) = 2 /\ \E i \in o.items : i.quantity = 2
    /\ \A o \in orders : o.user_id = resp.user_id
    /\ { r \in cart : r.user_id = resp.user_id } = {}

\* C2: a checkout by a user whose cart has no lines always fails, creates no
\* order and schedules no fulfillment callback.
C2_EmptyCartCheckoutFails ==
    [][\A u \in Users, r1 \in StoreResults, r2 \in StoreResults :
         ({ r \in cart : r.user_id = u } = {} /\ Checkout(u, <<>>, 0, r1, r2))
         => /\ resp'.op = "checkout" /\ resp'.status = 500
            /\ orders' = orders
            /\ timers' = timers
      ]_vars

\* A checkout answered 500 with the cart empty, no order and no callback.
C2_Witness ==
    /\ resp.op = "checkout" /\ resp.user_id \in Users /\ resp.status = 500
    /\ { r \in cart : r.user_id = resp.user_id } = {}
    /\ checkouts = 0
    /\ orders = {}
    /\ timers = <<>>

(* ----------------------- fulfillment (SpecFulfil) ---------------------- *)
\* C9 as stated: the order returned by a checkout has two fulfillment callbacks
\* scheduled, and updateOrderStatus(id, 'fulfilled') applied to an order that is
\* already fulfilled leaves every table exactly as it was.
C9_SecondFulfilChangesNothing ==
    [][/\ \A u \in Users :
            (resp'.op = "checkout" /\ resp'.user_id = u /\ resp'.status = 200
               /\ checkouts' = checkouts + 1)
            => timers'[resp'.order_id] = 2
       /\ \A o \in DOMAIN timers :
            (FireTimer(o, "ok") /\ \E x \in orders : x.id = o /\ x.status = "fulfilled")
            => /\ orders' = orders
               /\ UNCHANGED <<products, cart, ratings, vendor_profiles>>
      ]_vars

\* C9: the order returned by a checkout has two fulfillment callbacks scheduled
\* (every other order of the checkout has one), and updateOrderStatus(id,
\* 'fulfilled') applied to an order that is already fulfilled leaves its status,
\* items, total and owner, every other order and every other table as they
\* were: only the order's updated_at advances.
C9_SecondFulfilKeepsOrder ==
    [][/\ \A u \in Users :
            (resp'.op = "checkout" /\ resp'.user_id = u /\ resp'.status = 200
               /\ checkouts' = checkouts + 1)
            => /\ timers'[resp'.order_id] = 2
               /\ \A x \in orders' \ orders : x.id # resp'.order_id => timers'[x.id] = 1
       /\ \A o \in DOMAIN timers :
            (FireTimer(o, "ok") /\ \E x \in orders : x.id = o /\ x.status = "fulfilled")
            => /\ Cardinality(orders') = Cardinality(orders)
               /\ \A x \in orders :
                    IF x.id = o
                      THEN [x EXCEPT !.updated_at = x.updated_at + 1] \in orders'
                      ELSE x \in orders'
               /\ UNCHANGED <<products, cart, ratings, vendor_profiles>>
      ]_vars

\* Both callbacks of a returned order have fired: it is fulfilled and was
\* updated twice, beside an order of the same checkout that is still paid.
C9_Witness ==
    \E x \in orders :
       /\ x.id = resp.order_id /\ resp.op = "checkout" /\ resp.status = 200
       /\ x.status = "fulfilled" /\ x.updated_at = 2 /\ timers[x.id] = 0
       /\ \E y \in orders : y.id # x.id /\ y.status = "paid"

(* ------------------------ interleaving (SpecRace) ---------------------- *)
\* C8: checkout reads and clears the user's cart atomically: in every
\* interleaving with the user's cart requests, every cart line (with its
\* quantity) that the checkout's clear removes is among the items of an order
\* that this checkout created.
C8_ClearRemovesOnlyOrderedLines ==
    [][\A s \in Slots :
         CheckoutClear(s, "ok")
         => \A r \in cart \ cart' :
               \E o \in orders :
                  /\ \E k \in 1..Len(reqs[s].created) : reqs[s].created[k] = o.id
                  /\ \E i \in o.items :
                        i.product_id = r.product_id /\ i.quantity = r.quantity
      ]_vars

(* -------------------------- ratings (SpecRate) ------------------------- *)
\* C3: a rating submitted, on either route, for an order whose status is not
\* fulfilled always fails and leaves the ratings table unchanged.
C3_UnfulfilledOrderNotRatable ==
    [][resp'.op = "rate" =>
       \A u \in {resp'.user_id}, o \in { x.id : x \in orders }, route \in RateRoutes,
          b \in RateBodies, res \in StoreResults :
         (/\ \E x \in orders : x.id = o /\ x.user_id = u /\ x.status # "fulfilled"
          /\ RateOrder(route, u, o, b, res))
         => resp'.status # 200 /\ ratings' = ratings
      ]_vars

\* C4 as stated: the ratings table holds at most one row per (user, product),
\* and after a resubmission for a product the row carries the rating and the
\* comment of the latest submission as submitted.
C4_LatestRatingAsSubmitted ==
    [][(resp'.op = "rate" /\ resp'.status = 200) =>
       \A u \in {resp'.user_id}, o \in { x.id : x \in orders }, route \in RateRoutes,
          b \in RateBodies :
         RateOrder(route, u, o, b, "ok")
         => \A i \in (CHOOSE x \in orders : x.id = o).items :
               (\E old \in ratings : old.user_id = u /\ old.product_id = i.product_id)
               => { r \in ratings' : r.user_id = u /\ r.product_id = i.product_id }
                    = { [user_id |-> u, product_id |-> i.product_id,
                         rating |-> b.rating, comment |-> b.comment] }
      ]_vars

\* C4: the ratings table holds at most one row per (user, product), and after
\* a resubmission for a product the row carries the rating of the latest
\* submission and its comment, an empty comment being stored as NULL.
C4_LatestRatingWins ==
    [][(resp'.op = "rate" /\ resp'.status = 200) =>
       \A u \in {resp'.user_id}, o \in { x.id : x \in orders }, route \in RateRoutes,
          b \in RateBodies :
         RateOrder(route, u, o, b, "ok")
         => \A i \in (CHOOSE x \in orders : x.id = o).items :
               (\E old \in ratings : old.user_id = u /\ old.product_id = i.product_id)
               => { r \in ratings' : r.user_id = u /\ r.product_id = i.product_id }
                    = { [user_id |-> u, product_id |-> i.product_id,
                         rating |-> b.rating,
                         comment |-> IF b.comment = "" THEN NoComment ELSE b.comment] }
      ]_vars

\* p1 was rated through an order of p1 and p2 and again, with other values,
\* through a second order of p1 alone: one row (u1, p1), with the later values.
C4_Witness ==
    /\ \E x \in orders, y \in orders :
          /\ { i.product_id : i \in x.items } = {"p1", "p2"}
          /\ { i.product_id : i \in y.items } = {"p1"}
    /\ resp.op = "rate" /\ resp.status = 200
    /\ ratings = { [user_id |-> "u1", product_id |-> "p1", rating |-> 3, comment |-> NoComment],
                   [user_id |-> "u1", product_id |-> "p2", rating |-> 5, comment |-> "nice"] }

\* C6: a rating submission by user u that names an order of another user always
\* fails and writes no rating row, whatever the status of the order.
C6_ForeignOrderNotRatable ==
    [][resp'.op = "rate" =>
       \A u \in {resp'.user_id}, o \in { x.id : x \in orders }, route \in RateRoutes,
          b \in RateBodies, res \in StoreResults :
         (/\ \E x \in orders : x.id = o /\ x.user_id # u
          /\ RateOrder(route, u, o, b, res))
         => resp'.status \in {400, 500} /\ ratings' = ratings
      ]_vars

\* u2, who has no order, named an order (of u1: one paid, one fulfilled) and
\* was answered 500; no row was written.
C6_Witness ==
    /\ resp.op = "rate" /\ resp.user_id = "u2" /\ resp.status = 500
    /\ \A x \in orders : x.user_id = "u1"
    /\ \E x \in orders : x.status = "fulfilled"
    /\ \E x \in orders : x.status = "paid"
    /\ ratings = {}

\* C7: after rateOrder(u, o, r, c) succeeds, every product of the item snapshot
\* of o has exactly one rating row (u, p), carrying r, and no row of another
\* user or of a product outside the order is written, changed or removed.
C7_OneRowPerOrderedProduct ==
    [][(resp'.op = "rate" /\ resp'.status = 200) =>
       \A u \in {resp'.user_id}, o \in { x.id : x \in orders }, route \in RateRoutes,
          b \in RateBodies :
         RateOrder(route, u, o, b, "ok")
         => LET P == { i.product_id : i \in (CHOOSE x \in orders : x.id = o).items }
                outside(rt) == { r \in rt : r.user_id # u \/ r.product_id \notin P }
            IN /\ \A p \in P :
                    /\ Cardinality({ r \in ratings' : r.user_id = u /\ r.product_id = p }) = 1
                    /\ \A r \in ratings' :
                          (r.user_id = u /\ r.product_id = p) => r.rating = b.rating
               /\ outside(ratings') = outside(ratings)
      ]_vars

\* An order of two products was rated 5 while a row for a product outside a
\* later rated order stays as it was.
C7_Witness ==
    /\ resp.op = "rate" /\ resp.status = 200
    /\ \E x \in orders :
          /\ x.user_id = resp.user_id
          /\ Cardinality(x.items) = 2
          /\ \A i \in x.items :
                \E r \in ratings : /\ r.user_id = resp.user_id
                                   /\ r.product_id = i.product_id
                                   /\ r.rating = 5
    /\ Cardinality(ratings) = 2

(* ------------------------- catalogue (SpecCatalog) --------------------- *)
\* C10: an order's total and item snapshot are fixed at checkout: a later
\* updateProduct or deleteProduct on a product contained in the order leaves
\* the order, with its total and items, unchanged.
C10_OrderSnapshotFixed ==
    [][\A u \in Vendors, p \in Products, res \in StoreResults :
         (/\ resp'.op \in {"updateProduct", "deleteProduct"} /\ resp'.user_id = u
          /\ \/ \E price \in NewPrices : UpdateProduct(u, p, price, res)
             \/ DeleteProduct(u, p, res))
         => \A o \in orders :
               (\E i \in o.items : i.product_id = p)
               => \E o2 \in orders' :
                     o2.id = o.id /\ o2.total = o.total /\ o2.items = o.items
      ]_vars

\* An order of p1 at price 2 whose product now costs 7, and an order of p3
\* whose product was deleted: both still total what was paid.
C10_Witness ==
    /\ \E o \in orders :
          /\ \E i \in o.items : i.product_id = "p1" /\ i.price = 2
          /\ o.total = SumLines(o.items)
          /\ \E pr \in products : pr.id = "p1" /\ pr.price = 7
    /\ \E o \in orders :
          /\ \E i \in o.items : i.product_id = "p3" /\ i.price = 5
          /\ o.total = SumLines(o.items)
          /\ \A pr \in products : pr.id # "p3"

C11_EveryOrderFulfilled ==
    \A id \in OrderIds :
       (\E x \in orders : x.id = id)
          ~> (\E x \in orders : x.id = id /\ x.status = "fulfilled")

\* The two orders of one checkout over two vendors are both fulfilled and no
\* callback is pending.
C11_Witness ==
    /\ resp.op = "checkout" /\ resp.status = 200
    /\ Cardinality(orders) = 2
    /\ \A x \in orders : x.status = "fulfilled" /\ timers[x.id] = 0
    /\ \E x \in orders : x.id # resp.order_id

(* --------------------- purchased products (SpecRate) ------------------- *)
\* C12: every rating row (u, p) is written for a product the user purchased:
\* when a row is written or changed there is an order owned by u whose item
\* snapshot contains p, and no step writes a rating in any other way.
C12_RatingsOnlyForPurchased ==
    [][\A r \in ratings' \ ratings :
          /\ \E o \in orders :
                /\ o.user_id = r.user_id
                /\ \E i \in o.items : i.product_id = r.product_id
          /\ resp'.op = "rate" /\ resp'.status = 200 /\ resp'.user_id = r.user_id
      ]_vars

\* u1 bought p1 only and rated it: the one rating row is (u1, p1), and u2, who
\* tried last, has none.
C12_Witness ==
    /\ orders # {}
    /\ \A o \in orders : o.user_id = "u1" /\ { i.product_id : i \in o.items } = {"p1"}
    /\ \E r \in ratings : r.user_id = "u1" /\ r.product_id = "p1"
    /\ Cardinality(ratings) = 1
    /\ resp.op = "rate" /\ resp.user_id = "u2"

(* ------------------------ ownership (SpecCatalog) ---------------------- *)
\* C13: PATCH or DELETE /api/vendor/products/:id changes or removes a product
\* only when the request's user-id equals the product's vendor_id; for any
\* other user-id the response is 403 and the product is unchanged.
C13_OnlyOwnerWritesProduct ==
    [][resp'.op \in {"updateProduct", "deleteProduct"} =>
       /\ \A pr \in products \ products' : pr.vendor_id = resp'.user_id
       /\ \A u \in {resp'.user_id}, p \in Products :
             (/\ ~\E pr \in products : pr.id = p /\ pr.vendor_id = u
              /\ \/ \E price \in NewPrices : UpdateProduct(u, p, price, "ok")
                 \/ DeleteProduct(u, p, "ok"))
             => resp'.status = 403 /\ products' = products
      ]_vars

\* v2, whose own product is in the catalogue, was answered 403: the product
\* it named is one of v1, and the catalogue is as seeded.
C13_Witness ==
    /\ resp.op \in {"updateProduct", "deleteProduct"}
    /\ resp.user_id = "v2" /\ resp.status = 403
    /\ products = SeedProducts

(* ----------------------- order status (SpecFulfil) --------------------- *)
\* C17: an order's status only moves forward in pending, paid, fulfilled: a
\* new order starts at paid, no step takes a status back to an earlier one
\* (fulfilled stays fulfilled), and no order ever has status cancelled.
C17_StatusMovesForward ==
    [][LET rank(st) == CASE st = "pending" -> 0 [] st = "paid" -> 1
                         [] st = "fulfilled" -> 2 [] OTHER -> 3
       IN /\ \A y \in orders' :
                /\ rank(y.status) <= 2
                /\ (\A x \in orders : x.id # y.id) => y.status = "paid"
          /\ \A x \in orders, y \in orders' :
                x.id = y.id => rank(x.status) <= rank(y.status)
      ]_vars

\* An order is fulfilled, its callbacks spent, beside an order that is still
\* paid because its only callback failed.
C17_Witness ==
    /\ \E x \in orders : x.status = "fulfilled" /\ x.updated_at = 1 /\ timers[x.id] = 0
    /\ \E x \in orders : x.status = "paid" /\ timers[x.id] = 0

(* ----------------------- new products (SpecCreate) --------------------- *)
\* C14: creating a product that lacks a name, a price or a category is
\* rejected and stores no product.
C14_IncompleteProductRejected ==
    [][resp'.op = "createProduct" =>
       \A u \in {resp'.user_id}, id \in NewProducts, b \in ProductBodies,
          res \in StoreResults :
          (/\ b.name = Missing \/ b.price = NoPrice \/ b.category = Missing
           /\ CreateProduct(u, id, b, res))
          => resp'.status # 200 /\ products' = products
      ]_vars

(* ------------------------ settings (SpecSettings) ---------------------- *)
\* C15: the value of an existing setting key changes only in a step of
\* updateSettings: no other operation, the start of the server included,
\* changes it.
C15_OnlyUpdateSettingsWrites ==
    [][\A k \in DOMAIN settings :
          settings'[k] # settings[k]
          => \E obj \in SettingsBodies : \E written \in SUBSET DOMAIN obj :
                UpdateSettings(obj, written)
      ]_vars

(* --------------------------- users (SpecAdmin) ------------------------- *)
\* C16: no operation removes an order: every order is still present after any
\* later step, a deleteUser on its buyer or on its vendor included.
C16_OrdersNeverRemoved ==
    [][\A o \in orders : \E o2 \in orders' : o2.id = o.id]_vars

(* --------------------- double submit (SpecDouble) ---------------------- *)
\* C18: two checkouts of one user can both read the cart before either clears
\* it and both succeed: a checkout that completes has created one order per
\* vendor from the lines it read, also when another checkout of the same user
\* has ordered the same lines, so the lines end up ordered twice.
C18_EachCheckoutOrdersWhatItRead ==
    [][\A s \in Slots :
         CheckoutClear(s, "ok")
         => LET r == reqs[s] IN
            /\ resp'.status = 200
            /\ \A v \in vendorsOf(r.cartItems) :
                  \E o \in orders :
                     /\ \E k \in 1..Len(r.created) : r.created[k] = o.id
                     /\ o.user_id = r.user_id /\ o.vendor_id = v
                     /\ o.items = itemsByVendor(r.cartItems, v)
      ]_vars

\* Two checkouts of a cart with lines of two vendors both succeeded: four
\* orders, two per vendor with the same items, and an empty cart.
C18_Witness ==
    /\ checkouts = 2
    /\ resp.op = "checkout" /\ resp.status = 200
    /\ \A s \in Slots : reqs[s].op = "idle"
    /\ Cardinality(orders) = 4
    /\ \A o \in orders :
          \E o2 \in orders : /\ o2.id # o.id /\ o2.user_id = o.user_id
                             /\ o2.vendor_id = o.vendor_id /\ o2.items = o.items
    /\ cart = {}

(* ------------------- restart of the server (SpecRestart) ---------------- *)
\* C19: a restart of the server before an order's callback has fired loses the
\* callback for good: the restart leaves the orders as they are and no callback
\* pending, and an order that is not fulfilled and has no pending callback
\* keeps its status and stays without a callback in every later step, so it is
\* never fulfilled.
C19_RestartLosesFulfilment ==
    [][/\ Restart(DOMAIN defaultSettings)
          => /\ orders' = orders
             /\ \A id \in DOMAIN timers' : timers'[id] = 0
       /\ \A o \in orders :
             (o.status # "fulfilled" /\ (o.id \in DOMAIN timers => timers[o.id] = 0))
             => /\ \E o2 \in orders' : o2.id = o.id /\ o2.status = o.status
                /\ o.id \in DOMAIN timers' => timers'[o.id] = 0
      ]_vars

\* The server has restarted after a checkout: no callback is registered any
\* more and an order is still paid.
C19_Witness ==
    /\ timers = <<>>
    /\ \E o \in orders : o.status = "paid"
    /\ checkouts = MaxCheckouts

(* ------------------- concurrent adds to the cart (SpecRace) ------------- *)
\* C20: no update of a cart line's quantity is lost: whenever an addToCart
\* call completes successfully, however its read and write are interleaved
\* with another call's, the line's quantity has grown by the quantity the call
\* added (1 when the request names none), so two completed calls add q1 + q2.
C20_EveryAddCounts ==
    [][\A s \in Slots :
         (AddToCartWrite(s, "ok") /\ resp'.status = 200)
         => LET r == reqs[s]
                before == existingQty(cart, r.user_id, r.product_id)
            IN existingQty(cart', r.user_id, r.product_id)
                 = (IF before = NoQty THEN 0 ELSE before) + qtyOr1(r.quantity)
      ]_vars

(* ---------------------- cart lines (SpecCart) --------------------------- *)
\* C21: there is at most one cart line per (user, product), and addToCart for a
\* pair that already has a line creates no second line and adds the requested
\* quantity to that line, 1 when the request gives none.
C21_OneLinePerPairAddsQuantity ==
    [][/\ \A r1, r2 \in cart' :
             (r1.user_id = r2.user_id /\ r1.product_id = r2.product_id) => r1 = r2
       /\ resp'.op = "addToCart"
          => \A u \in {resp'.user_id}, p \in RaceProducts, q \in BodyQtys :
                (AddToCart(u, p, q, "ok", "ok") /\ cartLine(cart, u, p) # {})
                => /\ Cardinality(cart') = Cardinality(cart)
                   /\ existingQty(cart', u, p)
                        = existingQty(cart, u, p) + (IF q = NoQty THEN 1 ELSE q)
      ]_vars

(* --------------------------- stock (Spec) ------------------------------- *)
\* C22: a checkout leaves the stock of every product as it was, whatever the
\* cart contains, so the quantity ordered of a product is not bounded by its
\* stock.
C22_CheckoutKeepsStock ==
    [][resp'.op = "checkout"
       => \A p \in products : \E p2 \in products' : p2.id = p.id /\ p2.stock = p.stock
      ]_vars

\* A checkout has succeeded with an order for more pieces of a product than
\* the product has in stock, and the stock is what it was.
C22_Witness ==
    /\ resp.op = "checkout" /\ resp.status = 200
    /\ \E o \in orders : \E i \in o.items : \E p \in products :
          /\ p.id = i.product_id
          /\ i.quantity > p.stock
          /\ p \in SeedProducts

(* ----------------------- rating values (SpecRating) --------------------- *)
\* C23: every stored rating is an integer from 1 to 5, whatever rating the
\* body of a submission carries and through whichever of the two routes.
C23_StoredRatingInRange ==
    \A r \in ratings : r.rating \in 1..5

\* Ratings 1 and 5 are stored and the submission answered last was refused
\* by the store, which only happens to a rating out of range here.
C23_Witness ==
    /\ \E r \in ratings : r.rating = 1
    /\ \E r \in ratings : r.rating = 5
    /\ resp.op = "rate" /\ resp.status = 500

(* ----------------------- registration (SpecRegister) -------------------- *)
\* C24: whenever createUser succeeds for a user with role vendor, exactly one
\* vendor profile exists for that user afterwards, with is_approved = false;
\* createUser for role user creates no vendor profile.
C24_VendorGetsProfile ==
    [][resp'.op = "register" /\ resp'.status = 200
       => \A id \in {resp'.user_id}, role \in Roles, name \in UserNames,
             r1, r2 \in StoreResults :
             CreateUser(id, role, name, r1, r2)
             => IF role = "vendor"
                  THEN /\ Cardinality(profileRow(vendor_profiles', id)) = 1
                       /\ \A r \in profileRow(vendor_profiles', id) : r.is_approved = FALSE
                  ELSE profileRow(vendor_profiles', id) = {}
      ]_vars

C26_FailedCheckoutChangesNothing ==
    [][(resp'.op = "checkout" /\ resp'.status = 500)
       => (orders' = orders /\ timers' = timers /\ cart' = cart)
      ]_vars

(* ------------------- a vendor's own approval (SpecVendor) --------------- *)
\* C27: PUT /api/vendor/profile leaves the is_approved flag of the vendor's
\* profile as it was, whatever the body contains: an existing profile keeps its
\* flag, and a profile the call creates has the default, false.
C27_VendorCannotApproveSelf ==
    [][resp'.op = "updateVendorProfile"
       => \A v \in {resp'.user_id} :
             \A r2 \in profileRow(vendor_profiles', v) :
                IF profileRow(vendor_profiles, v) = {}
                  THEN r2.is_approved = FALSE
                  ELSE \A r \in profileRow(vendor_profiles, v) : r2.is_approved = r.is_approved
      ]_vars

(* ---------------------- user records (SpecUsers) ------------------------ *)
\* C28: no response that returns a user record carries the user's
\* password_hash, on any of the routes that return users.
C28_NoPasswordHashInResponse ==
    "password_hash" \notin resp.keys

(* ------------------- positive quantities (SpecCart) --------------------- *)
\* C29: every cart line has a quantity of at least 1, whatever quantities the
\* bodies of POST /api/cart and PATCH /api/cart/:productId carry, and so has
\* every line of every order.
C29_QuantitiesPositive ==
    /\ \A r \in cart : r.quantity >= 1
    /\ \A o \in orders : \A i \in o.items : i.quantity >= 1

(* ------------------------- revenue (SpecFulfil) ------------------------- *)
\* C30: the total revenue getAdminStats reports never decreases over checkouts
\* and fulfillments: an order counted while paid is still counted once it is
\* fulfilled, so the total stays equal to the sum of the revenues
\* getVendorStats reports for the vendors.
C30_RevenueNeverDecreases ==
    [][/\ adminRevenue(orders') >= adminRevenue(orders)
       /\ adminRevenue(orders') = vendorRevenue(orders', "v1") + vendorRevenue(orders', "v2")
      ]_vars

====
